---- MODULE Spec2Model ----
(***************************************************************************)
(* The digest pipeline of digest.py: main() loops over the configured      *)
(* digests, should_run_digest() decides which are due, run_digest()        *)
(* selects the new videos of a digest, enriches and filters them, sends    *)
(* one email per recipient and commits last_run / seen_ids.                *)
(*                                                                         *)
(* Time is counted in hours (a datetime is an integer, a timedelta of n    *)
(* days is n * 24).  A video is named by its id; what the feed and the     *)
(* Data API say about it is looked up in Catalogue.                        *)
(***************************************************************************)
EXTENDS Integers, Sequences, FiniteSets, TLC

\* ------------------------------------------------------------------ bounds
\* The clock of the model runs from 0 to MaxNow.
MaxNow == 2
\* The longest list of videos built up one by one for the renderer.
MaxVideos == 6

\* ------------------------------------------------------ program constants
\* list(...)[-500:]
SeenCap == 500
\* total_seconds < 60
ShortSeconds == 60

Days(n) == n * 24

\* --------------------------------------------------------------- helpers
Range(s) == {s[i] : i \in DOMAIN s}

\* dict.get(key, default)
Get(d, key, default) == IF key \in DOMAIN d THEN d[key] ELSE default

\* ------------------------------------------------------------- the source
\* An ISO 8601 duration token: the text before the first number and the
\* (number, unit) pairs that follow it.
Dur(prefix, parts) == [prefix |-> prefix, parts |-> parts]
P(n, u) == [n |-> n, u |-> u]

\* A feed timestamp: the wall-clock hour it names and its UTC offset.
At(h) == [hour |-> h, tz |-> 0]

WatchUrl(id) == <<"www.youtube.com", "watch", id>>
ShortsUrl(id) == <<"www.youtube.com", "shorts", id>>

NoDuration == Dur("", <<>>)

\* What the channel feeds and the Data API return for each video.  has_duration
\* says whether contentDetails carries a duration at all.
Catalogue ==
  [a1 |-> [channel_id |-> "UCa", published |-> At(-25), url |-> WatchUrl("a1"),
           has_duration |-> TRUE, duration |-> Dur("PT", <<P(10, "M")>>)],
   a2 |-> [channel_id |-> "UCa", published |-> At(-24), url |-> WatchUrl("a2"),
           has_duration |-> TRUE, duration |-> Dur("PT", <<P(59, "S")>>)],
   a3 |-> [channel_id |-> "UCa", published |-> At(-23), url |-> WatchUrl("a3"),
           has_duration |-> TRUE, duration |-> Dur("PT", <<P(1, "M")>>)],
   a4 |-> [channel_id |-> "UCa", published |-> At(1), url |-> ShortsUrl("a4"),
           has_duration |-> TRUE, duration |-> Dur("PT", <<P(5, "M")>>)],
   b1 |-> [channel_id |-> "UCb", published |-> At(-169), url |-> WatchUrl("b1"),
           has_duration |-> TRUE, duration |-> Dur("PT", <<P(2, "H")>>)],
   b2 |-> [channel_id |-> "UCb", published |-> At(-168), url |-> WatchUrl("b2"),
           has_duration |-> TRUE,
           duration |-> Dur("PT", <<P(1, "H"), P(2, "M"), P(3, "S")>>)],
   b3 |-> [channel_id |-> "UCb", published |-> At(-100), url |-> WatchUrl("b3"),
           has_duration |-> TRUE, duration |-> Dur("PT", <<P(60, "S")>>)],
   c1 |-> [channel_id |-> "UCc", published |-> At(-73), url |-> WatchUrl("c1"),
           has_duration |-> TRUE, duration |-> Dur("PT", <<P(45, "M")>>)],
   c2 |-> [channel_id |-> "UCc", published |-> At(-72), url |-> WatchUrl("c2"),
           has_duration |-> FALSE, duration |-> NoDuration],
   c3 |-> [channel_id |-> "UCc", published |-> At(-10), url |-> WatchUrl("c3"),
           has_duration |-> TRUE,
           duration |-> Dur("P", <<P(1, "DT"), P(2, "H")>>)],
   x1 |-> [channel_id |-> "UCx", published |-> At(-5), url |-> WatchUrl("x1"),
           has_duration |-> TRUE, duration |-> Dur("PT", <<P(30, "M")>>)],
   y1 |-> [channel_id |-> "UCy", published |-> At(-3), url |-> WatchUrl("y1"),
           has_duration |-> TRUE, duration |-> Dur("PT", <<P(20, "M")>>)]]

Ids == DOMAIN Catalogue

\* statistics.viewCount and statistics.likeCount of the Data API
Statistics ==
  [a1 |-> [viewCount |-> 100, likeCount |-> 10],
   a2 |-> [viewCount |-> 50, likeCount |-> 5],
   a3 |-> [viewCount |-> 0, likeCount |-> 0],
   a4 |-> [viewCount |-> 40, likeCount |-> 8],
   b1 |-> [viewCount |-> 10, likeCount |-> 1],
   b2 |-> [viewCount |-> 20, likeCount |-> 1],
   b3 |-> [viewCount |-> 30, likeCount |-> 3],
   c1 |-> [viewCount |-> 10, likeCount |-> 2],
   c2 |-> [viewCount |-> 10, likeCount |-> 3],
   c3 |-> [viewCount |-> 10, likeCount |-> 4],
   x1 |-> [viewCount |-> 10, likeCount |-> 1],
   y1 |-> [viewCount |-> 10, likeCount |-> 2]]

\* The entry lists a channel's feed can return, newest first.
Feeds ==
  [UCa |-> {<<"a4", "a3", "a2", "a1">>, <<"a3", "a2", "a1">>},
   UCb |-> {<<"b3", "b2", "b1">>, <<"b2", "b1">>},
   UCc |-> {<<"c3", "c2", "c1">>, <<"c1">>},
   UCx |-> {<<"x1">>},
   UCy |-> {<<"y1">>}]

ChannelIds == DOMAIN Feeds

\* A channel reference: youtube.com/channel/<id> carries the id, the other
\* forms name a page that has to be fetched to learn it.
Ref(kind, name) == [kind |-> kind, name |-> name]

\* ------------------------------------------------------ the analysis calls
\* A Python dict with no key.
EmptyDict == [k \in {} |-> ""]

\* What a messages.create call gives: it raises, or it answers with a text in
\* which the pattern for a JSON object matches or not, and json.loads reads
\* the match as value or raises.
Reply(raised, has_json, valid, value) ==
  [raised |-> raised, has_json |-> has_json, valid |-> valid, value |-> value]

CallFails == Reply(TRUE, FALSE, FALSE, EmptyDict)

Json(value) == Reply(FALSE, TRUE, TRUE, value)

\* What the analysis call for each video answers when it answers: a JSON
\* object, a text without one, or one that json.loads rejects.
Replies ==
  [a1 |-> Json([category |-> "Tech"]),
   a2 |-> Json([guests |-> <<"g">>, topics |-> <<"t">>, sentiment |-> "positive",
                category |-> "Tech", summary |-> "s"]),
   a3 |-> Reply(FALSE, FALSE, FALSE, EmptyDict),
   a4 |-> Json([category |-> "News"]),
   b1 |-> Json([category |-> "News"]),
   b2 |-> Json([guests |-> <<>>, topics |-> <<"t">>, sentiment |-> "mixed",
                category |-> "News", summary |-> "s"]),
   b3 |-> Json([guests |-> <<>>, topics |-> <<"t">>, sentiment |-> "excited",
                category |-> "Gaming", summary |-> "s"]),
   c1 |-> Json([category |-> "News"]),
   c2 |-> Reply(FALSE, TRUE, FALSE, EmptyDict),
   c3 |-> Json([summary |-> "s"]),
   x1 |-> Json([guests |-> <<"g">>, topics |-> <<"t">>, sentiment |-> "negative",
                category |-> "Tech", summary |-> "s"]),
   y1 |-> Json([guests |-> <<>>, topics |-> <<"t">>, sentiment |-> "positive",
                category |-> "News", summary |-> "s"])]

\* The analysis calls of one run: no API key, or a key and every call
\* failing, or a key and every call answering.
AiNoKey ==
  [key |-> FALSE, themes_ok |-> FALSE, replies |-> [v \in Ids |-> CallFails]]
AiFails ==
  [key |-> TRUE, themes_ok |-> FALSE, replies |-> [v \in Ids |-> CallFails]]
AiAnswers == [key |-> TRUE, themes_ok |-> TRUE, replies |-> Replies]

NoAi == [key |-> FALSE, themes_ok |-> FALSE, replies |-> EmptyDict]

\* ---------------------------------------------------------- configuration
Daily ==
  [id |-> "d1", name |-> "Daily", channels |-> <<Ref("handle", "UCa")>>,
   recipients |-> <<"r1", "r2">>]
Weekly ==
  [id |-> "d2", name |-> "Weekly", channels |-> <<Ref("channel", "UCb")>>,
   recipients |-> <<"r1", "r2", "r3">>, frequency |-> "weekly"]
Biweekly ==
  [name |-> "Biweekly", channels |-> <<Ref("handle", "UCc")>>,
   recipients |-> <<"r2">>, frequency |-> "biweekly"]
\* Two channels, the first one named by a handle.
Pair ==
  [id |-> "d3", name |-> "Pair",
   channels |-> <<Ref("handle", "UCx"), Ref("channel", "UCy")>>,
   recipients |-> <<"r1">>]
\* No recipients key.
Silent ==
  [id |-> "d4", name |-> "Silent", channels |-> <<Ref("channel", "UCy")>>]
\* An empty channel list.
Hollow ==
  [id |-> "d5", name |-> "Hollow", channels |-> <<>>, recipients |-> <<"r1">>]
\* Recipients in config.json, an empty list in DIGEST_SUBSCRIBERS.
Muted ==
  [id |-> "d6", name |-> "Muted", channels |-> <<Ref("channel", "UCy")>>,
   recipients |-> <<"r1">>]

NoSubscribers == [x \in {} |-> <<>>]

\* DIGEST_SUBSCRIBERS with a list for d3 and an empty list for d6
Subscribers == [d3 |-> <<"s1", "s2">>, d6 |-> <<>>]

\* A deployment: config.json, DIGEST_SUBSCRIBERS, and ai, the ways the
\* analysis calls behave in it (whether ANTHROPIC_API_KEY is set, whether the
\* calls answer).
Configs ==
  {[digests |-> <<Daily>>, subscribers |-> NoSubscribers, ai |-> {AiAnswers}],
   [digests |-> <<Weekly, Biweekly>>, subscribers |-> NoSubscribers,
    ai |-> {AiNoKey}],
   [digests |-> <<Pair>>, subscribers |-> Subscribers,
    ai |-> {AiNoKey, AiFails}],
   [digests |-> <<Silent, Hollow, Muted>>, subscribers |-> Subscribers,
    ai |-> {AiAnswers}]}

DigestId(digest) == Get(digest, "id", digest.name)

\* Recipients with DIGEST_SUBSCRIBERS left unread.
RecipientsConfigured(digest, subscribers) == Get(digest, "recipients", <<>>)

\* subscribers.get(digest_id, digest.get("recipients", []))
Recipients(digest, subscribers) ==
  Get(subscribers, DigestId(digest), Get(digest, "recipients", <<>>))

DigestIds(cfg) == {DigestId(cfg.digests[i]) : i \in DOMAIN cfg.digests}

\* ------------------------------------------------------------------ state
\* config   : config.json and DIGEST_SUBSCRIBERS, fixed over the invocations
\* state    : state.json, digest id -> [last_run, seen_ids]
\* now      : the wall clock, datetime.now()
\* last     : what the most recent call of run_digest did
\* ever     : digest id -> every video id that state.json ever had in its
\*            seen_ids
\* call     : what the most recent invocation of main() did, when there was
\*            one in the current hour
\* shelf    : a list of videos with the replies of the analysis calls, as
\*            handed to analyze_with_claude and format_email_html
\* html     : what format_email_html made of shelf
VARIABLES config, state, now, last, ever, call, shelf, html

vars == <<config, state, now, last, ever, call, shelf, html>>

\* seen_ids is a set of ids.  The ids of Catalogue are kept by name; the ids
\* committed by earlier runs that no feed returns any more are
\* interchangeable and only their number, old, is kept.
Seen(ids, old) == [ids |-> ids, old |-> old]

Size(seen) == Cardinality(seen.ids) + seen.old

\* state.get(digest_id, {}) read for a digest without an entry
NoEntry == [last_run |-> 0, seen_ids |-> Seen({}, 0)]

\* ---------------------------------------------------- Content Source Adapter
\* extract_channel_id: page is the channel id found on the fetched page, ""
\* when the fetch failed or the page names none.
extract_channel_id(url, page) ==
  IF url.kind = "channel" THEN url.name
  ELSE IF url.kind \in {"handle", "c", "user"} THEN page
  ELSE ""

\* get_channel_feed: the entries the feed returned.  Nothing in it is guarded:
\* when feedparser or the reading of an entry's yt_videoid, title, link or
\* published raises, the exception leaves the function.
get_channel_feed(channel_id, answer) ==
  [raised |-> answer.error, videos |-> answer.entries]

\* datetime.fromisoformat(published).replace(tzinfo=None): the offset is
\* dropped, the wall-clock reading stays.
pub_date(v) == Catalogue[v].published.hour

\* re.match(r'PT(?:(\d+)H)?(?:(\d+)M)?(?:(\d+)S)?'): an optional H part, then
\* an optional M part, then an optional S part, right after "PT".
_parse_duration(duration_str) ==
  IF duration_str.prefix # "PT" THEN <<0, 0, 0>>
  ELSE
    LET ps == duration_str.parts
        hasH == Len(ps) >= 1 /\ ps[1].u = "H"
        iM == IF hasH THEN 2 ELSE 1
        hasM == Len(ps) >= iM /\ ps[iM].u = "M"
        iS == IF hasM THEN iM + 1 ELSE iM
        hasS == Len(ps) >= iS /\ ps[iS].u = "S"
    IN <<IF hasH THEN ps[1].n ELSE 0,
         IF hasM THEN ps[iM].n ELSE 0,
         IF hasS THEN ps[iS].n ELSE 0>>

\* _is_short_video with the 60th second counted as short.
IsShortAtMost(duration_str) ==
  LET hms == _parse_duration(duration_str)
      total_seconds == hms[1] * 3600 + hms[2] * 60 + hms[3]
  IN total_seconds <= ShortSeconds

_is_short_video(duration_str) ==
  LET hms == _parse_duration(duration_str)
      total_seconds == hms[1] * 3600 + hms[2] * 60 + hms[3]
  IN total_seconds < ShortSeconds

\* get_video_details: {} when the API gave nothing, else an entry per video
get_video_details(video_ids, api_ok) ==
  IF ~api_ok \/ video_ids = <<>> THEN [v \in {} |-> [is_short |-> FALSE]]
  ELSE [v \in Range(video_ids) |->
          LET duration_str ==
                IF Catalogue[v].has_duration THEN Catalogue[v].duration
                ELSE Dur("PT", <<P(0, "S")>>)
          IN [is_short |-> _is_short_video(duration_str),
              duration |-> duration_str,
              views |-> Statistics[v].viewCount,
              likes |-> Statistics[v].likeCount]]

\* "/shorts/" in v.get("url", "")
HasShortsSegment(url) == \E i \in 2..Len(url) - 1 : url[i] = "shorts"

\* ------------------------------------------------------------------ Selector
\* Lookback with biweekly falling through to the weekly branch.
LookbackNoBiweekly(frequency) ==
  IF frequency = "daily" THEN Days(1) ELSE Days(7)

Lookback(frequency) ==
  IF frequency = "daily" THEN Days(1)
  ELSE IF frequency = "biweekly" THEN Days(3)
  ELSE Days(7)

\* Eligible without the test of the seen list.
EligibleSeenIgnored(v, start_date, seen_ids) == pub_date(v) >= start_date

\* pub_date >= start_date and v["id"] not in seen_ids
Eligible(v, start_date, seen_ids) ==
  pub_date(v) >= start_date /\ v \notin seen_ids.ids

\* The for loop over one feed: the eligible entries, in feed order.
RECURSIVE SelectFrom(_, _, _)
SelectFrom(videos, start_date, seen_ids) ==
  IF videos = <<>> THEN <<>>
  ELSE (IF Eligible(Head(videos), start_date, seen_ids)
        THEN <<Head(videos)>> ELSE <<>>)
       \o SelectFrom(Tail(videos), start_date, seen_ids)

\* Gather with the loop left at the first channel that does not resolve.
RECURSIVE GatherUntilUnresolved(_, _, _, _, _)
GatherUntilUnresolved(channels, web, i, start_date, seen_ids) ==
  IF i > Len(channels)
  THEN [raised |-> FALSE, fetched |-> <<>>, all_videos |-> <<>>]
  ELSE IF extract_channel_id(channels[i], web[i].page) = ""
  THEN [raised |-> FALSE, fetched |-> <<>>, all_videos |-> <<>>]
  ELSE
    LET feed == get_channel_feed("", web[i])
        rest == GatherUntilUnresolved(channels, web, i + 1, start_date, seen_ids)
    IN IF feed.raised \/ rest.raised
       THEN [raised |-> TRUE, fetched |-> <<>>, all_videos |-> <<>>]
       ELSE [raised |-> FALSE, fetched |-> feed.videos \o rest.fetched,
             all_videos |-> SelectFrom(feed.videos, start_date, seen_ids)
                            \o rest.all_videos]

\* The for loop over the channels, web[i] being what the network answers for
\* channels[i]: an unresolved channel is skipped.  fetched collects every
\* entry returned, all_videos the selected ones.  An exception of
\* get_channel_feed ends the loop and the lists are lost with it.
RECURSIVE Gather(_, _, _, _, _)
Gather(channels, web, i, start_date, seen_ids) ==
  IF i > Len(channels)
  THEN [raised |-> FALSE, fetched |-> <<>>, all_videos |-> <<>>]
  ELSE
    LET channel_id == extract_channel_id(channels[i], web[i].page)
        rest == Gather(channels, web, i + 1, start_date, seen_ids)
    IN IF channel_id = "" THEN rest
       ELSE
         LET feed == get_channel_feed(channel_id, web[i])
             videos == feed.videos
         IN IF feed.raised \/ rest.raised
            THEN [raised |-> TRUE, fetched |-> <<>>, all_videos |-> <<>>]
            ELSE [raised |-> FALSE, fetched |-> videos \o rest.fetched,
                  all_videos |-> SelectFrom(videos, start_date, seen_ids)
                                 \o rest.all_videos]

\* ------------------------------------------------------------- State Store
\* Merge that leaves the new ids out.
MergeNothing(seen_ids, video_ids) == seen_ids

\* seen_ids | set(video_ids)
Merge(seen_ids, video_ids) ==
  Seen(seen_ids.ids \cup Range(video_ids), seen_ids.old)

Excess(seen) == IF Size(seen) > SeenCap THEN Size(seen) - SeenCap ELSE 0

\* list(a_set)[-500:] keeps the last 500 elements in the iteration order of
\* the set, which follows the hashes of the ids and not the order in which
\* they were added: any Excess(seen) of its elements may be the ones cut.
\* evict names the cut ids of Catalogue, the rest of the cut is old ids.
EvictChoices(seen) ==
  {E \in SUBSET seen.ids :
     Cardinality(E) <= Excess(seen) /\ Excess(seen) - Cardinality(E) <= seen.old}

\* KeepLast without the slice.
KeepAll(seen, evict) == seen

KeepLast(seen, evict) ==
  Seen(seen.ids \ evict, seen.old - (Excess(seen) - Cardinality(evict)))

\* Put with the entry written under every key of the dict.
PutEverywhere(st, digest_id, entry) ==
  [k \in DOMAIN st \cup {digest_id} |-> entry]

\* state[digest_id] = {...}
Put(st, digest_id, entry) ==
  [k \in DOMAIN st \cup {digest_id} |-> IF k = digest_id THEN entry ELSE st[k]]

\* ------------------------------------------------------------------ Analyzer
\* The analysis a video gets when none could be parsed.
DefaultAnalysis ==
  [guests |-> <<>>, topics |-> <<>>, sentiment |-> "unknown",
   category |-> "Other", summary |-> ""]

\* ParsedOrDefault with nothing put in the place of a failed analysis.
ParsedOrEmpty(reply) ==
  IF reply.raised \/ ~reply.has_json \/ ~reply.valid THEN EmptyDict
  ELSE reply.value

\* parsed or {...}: None and the empty dict both give way to the default.
ParsedOrDefault(reply) ==
  IF reply.raised \/ ~reply.has_json \/ ~reply.valid THEN DefaultAnalysis
  ELSE IF DOMAIN reply.value = {} THEN DefaultAnalysis
  ELSE reply.value

\* analyze_with_claude(videos, digest_name): ai.key says whether
\* ANTHROPIC_API_KEY is set, ai.themes_ok whether the themes call answered,
\* ai.replies[id] is what the call for the video id gives.
analyze_with_claude(videos, ai) ==
  IF ~ai.key
  THEN [themes |-> "AI analysis unavailable (no API key)",
        video_analyses |-> EmptyDict]
  ELSE [themes |-> IF ai.themes_ok THEN "themes" ELSE "Theme analysis unavailable",
        video_analyses |->
          [id \in {videos[i].id : i \in DOMAIN videos} |->
             ParsedOrDefault(ai.replies[id])]]

\* ------------------------------------------------------------------ Renderer
\* likes / views as a fraction, 0 when there are no views.
Rate(v) ==
  IF v.views > 0 THEN [num |-> v.likes, den |-> v.views]
  ELSE [num |-> 0, den |-> 1]

KeyLess(a, b) == a.num * b.den < b.num * a.den

\* One step of the stable descending sort: x goes behind every item whose
\* key is not below its own.
RECURSIVE InsertReverse(_, _)
InsertReverse(sorted, x) ==
  IF sorted = <<>> THEN <<x>>
  ELSE IF KeyLess(Head(sorted).key, x.key) THEN <<x>> \o sorted
  ELSE <<Head(sorted)>> \o InsertReverse(Tail(sorted), x)

RECURSIVE SortedUpTo(_, _)
SortedUpTo(items, n) ==
  IF n = 0 THEN <<>> ELSE InsertReverse(SortedUpTo(items, n - 1), items[n])

\* sorted with the list left as it is.
Unsorted(items) == items

\* sorted(items, key=..., reverse=True): descending by key, items of equal
\* key in the order they had.
SortedReverse(items) == SortedUpTo(items, Len(items))

\* The threshold rounded up: the smallest count that is at least a fifth.
ThresholdCeil(n) == IF (n + 4) \div 5 > 1 THEN (n + 4) \div 5 ELSE 1

\* max(1, len(sorted_rates) // 5)
must_watch_threshold(n) == IF n \div 5 > 1 THEN n \div 5 ELSE 1

\* analysis.get("video_analyses", {}).get(v["id"], {})
VidAnalysis(analysis, id) == Get(analysis.video_analyses, id, EmptyDict)

\* The categories dict after the first n videos, in insertion order.
RECURSIVE GroupUpTo(_, _, _)
GroupUpTo(videos, analysis, n) ==
  IF n = 0 THEN <<>>
  ELSE
    LET categories == GroupUpTo(videos, analysis, n - 1)
        v == videos[n]
        category == Get(VidAnalysis(analysis, v.id), "category", "Other")
        at == {i \in DOMAIN categories : categories[i].category = category}
    IN IF at = {}
       THEN Append(categories, [category |-> category, videos |-> <<v.id>>])
       ELSE [i \in DOMAIN categories |->
               IF i \in at
               THEN [categories[i] EXCEPT !.videos = Append(@, v.id)]
               ELSE categories[i]]

\* format_video_card: what the card shows of the analysis
Card(analysis, must_watch_ids, id) ==
  LET vid_analysis == VidAnalysis(analysis, id)
  IN [guests |-> Get(vid_analysis, "guests", <<>>),
      summary |-> Get(vid_analysis, "summary", ""),
      sentiment |-> Get(vid_analysis, "sentiment", "unknown"),
      must_watch |-> id \in must_watch_ids]

\* format_email_html(..., videos, analysis): the badges, the sections and the
\* cards of the page.
format_email_html(videos, analysis) ==
  LET engagement_rates ==
        [i \in DOMAIN videos |-> [id |-> videos[i].id, key |-> Rate(videos[i])]]
      sorted_rates == SortedReverse(engagement_rates)
      threshold == must_watch_threshold(Len(sorted_rates))
      must_watch_ids ==
        {sorted_rates[i].id : i \in {j \in DOMAIN sorted_rates : j <= threshold}}
      categories == GroupUpTo(videos, analysis, Len(videos))
      sorted_categories ==
        SortedReverse([i \in DOMAIN categories |->
                         [category |-> categories[i].category,
                          videos |-> categories[i].videos,
                          key |-> [num |-> Len(categories[i].videos), den |-> 1]]])
  IN [themes |-> analysis.themes,
      must_watch_ids |-> must_watch_ids,
      sorted_categories |->
        [i \in DOMAIN sorted_categories |->
           [category |-> sorted_categories[i].category,
            videos |-> sorted_categories[i].videos]],
      cards |-> [id \in {videos[i].id : i \in DOMAIN videos} |->
                   Card(analysis, must_watch_ids, id)]]

\* No page rendered.
NoPage ==
  [themes |-> "", must_watch_ids |-> {}, sorted_categories |-> <<>>,
   cards |-> EmptyDict]

\* ------------------------------------------------------------- run_digest
\* How a run relates to the call of run_digest just before it, when that one
\* ran the same digest at the same time from the same channel pages and feeds.
NoRepeat == [same |-> FALSE, success |-> FALSE, cut |-> FALSE, all_videos |-> <<>>]

\* A run that did not happen.
NoRun ==
  [ran |-> FALSE, digest_id |-> "", end_date |-> 0, start_date |-> 0,
   web |-> <<>>, had_entry |-> FALSE, entry_before |-> NoEntry,
   ever_before |-> {}, fetched |-> <<>>, all_videos |-> <<>>,
   video_ids |-> <<>>, detailed |-> {}, is_short |-> {}, videos |-> <<>>,
   reached_delivery |-> FALSE, attempts |-> <<>>, delivered |-> {},
   success |-> FALSE, writes |-> 0, merged |-> Seen({}, 0),
   repeat |-> NoRepeat, raised |-> FALSE,
   ai |-> NoAi, analysis |-> [themes |-> "", video_analyses |-> EmptyDict],
   html |-> NoPage]

\* Deliver with the loop left at the first send_email that returns False.
RECURSIVE DeliverUntilFailure(_, _, _)
DeliverUntilFailure(recipients, sent, i) ==
  IF i > Len(recipients) THEN [success |-> FALSE, attempts |-> <<>>]
  ELSE IF i \notin sent
  THEN [success |-> FALSE, attempts |-> <<recipients[i]>>]
  ELSE [success |-> TRUE,
        attempts |-> <<recipients[i]>>
                     \o DeliverUntilFailure(recipients, sent, i + 1).attempts]

\* The success flag after the loop over the recipients: sent is the set of
\* positions whose send_email returned True.
RECURSIVE Deliver(_, _, _)
Deliver(recipients, sent, i) ==
  IF i > Len(recipients) THEN [success |-> FALSE, attempts |-> <<>>]
  ELSE
    LET rest == Deliver(recipients, sent, i + 1)
    IN [success |-> (i \in sent) \/ rest.success,
        attempts |-> <<recipients[i]>> \o rest.attempts]

\* Commits with the write not guarded by success.
CommitsAlways(success, delivered) == 1

\* Commits with the write inside the loop over the recipients.
CommitsPerDelivery(success, delivered) == Cardinality(delivered)

\* if success: state[digest_id] = ...
Commits(success, delivered) == IF success THEN 1 ELSE 0

\* The early returns tested on a list that is never taken as empty.
NothingNever(videos) == FALSE

\* if not all_videos / if not videos: the list is empty
Nothing(videos) == videos = <<>>

\* Drop the videos flagged is_short and those with /shorts/ in the url.
KeepVideo(v, details) ==
  ~Get(details, v, [is_short |-> FALSE]).is_short
  /\ ~HasShortsSegment(Catalogue[v].url)

\* v.update(details[v["id"]]): the kept videos with the views and likes the
\* renderer reads, 0 for a video without details.
Enriched(videos, details) ==
  [i \in DOMAIN videos |->
     [id |-> videos[i],
      views |-> Get(details, videos[i], [views |-> 0]).views,
      likes |-> Get(details, videos[i], [likes |-> 0]).likes]]

\* analysis = analyze_with_claude(all_videos, name) and the page that
\* format_email_html makes of it for each recipient.
Rendering(listed, ai) ==
  LET analysis == analyze_with_claude(listed, ai)
  IN [analysis |-> analysis, html |-> format_email_html(listed, analysis)]

\* run_digest(digest, state, subscribers) at time t.  inp is what the outside
\* world does during the run: web (channel pages and feeds), api_ok (the Data
\* API answers), sent (the deliveries that succeed), evict (the cut of the
\* seen list), ai (the analysis calls).  The result is the new state, the return value and a record
\* of the run.  The commit reads datetime.now() again; a run is short against
\* the hour the clock counts in, so last_run is t.  raised says that the call
\* ended with an exception instead of a return value.
run_digest(digest, st, subscribers, t, inp, seen_ever) ==
  LET name == digest.name
      digest_id == DigestId(digest)
      recipients == Recipients(digest, subscribers)
      channels == digest.channels
      frequency == Get(digest, "frequency", "daily")
      end_date == t
      start_date == end_date - Lookback(frequency)
      seen_ids == Get(st, digest_id, NoEntry).seen_ids
      got == Gather(channels, inp.web, 1, start_date, seen_ids)
      all_videos == got.all_videos
      begun == [NoRun EXCEPT !.ran = TRUE, !.digest_id = digest_id,
                  !.end_date = end_date, !.start_date = start_date,
                  !.web = inp.web, !.had_entry = digest_id \in DOMAIN st,
                  !.entry_before = Get(st, digest_id, NoEntry),
                  !.ever_before = seen_ever,
                  !.fetched = got.fetched, !.all_videos = all_videos]
  IN
  IF got.raised
  THEN [state |-> st, result |-> FALSE, raised |-> TRUE,
        run |-> [begun EXCEPT !.raised = TRUE]]
  ELSE IF Nothing(all_videos)
  THEN [state |-> st, result |-> FALSE, raised |-> FALSE, run |-> begun]
  ELSE
    LET video_ids == all_videos
        details == get_video_details(video_ids, inp.api_ok)
        videos == SelectSeq(all_videos, LAMBDA v : KeepVideo(v, details))
        enriched == [begun EXCEPT !.video_ids = video_ids,
                       !.detailed = DOMAIN details,
                       !.is_short = {v \in DOMAIN details : details[v].is_short},
                       !.videos = videos]
    IN
    IF Nothing(videos)
    THEN [state |-> st, result |-> FALSE, raised |-> FALSE, run |-> enriched]
    ELSE
      LET made == Rendering(Enriched(videos, details), inp.ai)
          sending == Deliver(recipients, inp.sent, 1)
          success == sending.success
          merged == Merge(seen_ids, video_ids)
          entry == [last_run |-> t, seen_ids |-> KeepLast(merged, inp.evict)]
          writes == Commits(success, inp.sent)
          done == [enriched EXCEPT !.reached_delivery = TRUE,
                     !.attempts = sending.attempts,
                     !.delivered = inp.sent \cap (1..Len(recipients)),
                     !.success = success, !.writes = writes,
                     !.merged = merged, !.ai = inp.ai,
                     !.analysis = made.analysis, !.html = made.html]
      IN [state |-> IF writes > 0 THEN Put(st, digest_id, entry) ELSE st,
          result |-> success, raised |-> FALSE, run |-> done]

\* --------------------------------------------------- Scheduler/Dispatcher
\* (now - last_run_dt).days
DaysBetween(t, last_run_dt) == (t - last_run_dt) \div 24

\* should_run_digest with a digest due only after more than its interval.
ShouldRunLate(digest, st, t) ==
  LET digest_id == DigestId(digest)
      frequency == Get(digest, "frequency", "daily")
  IN IF digest_id \notin DOMAIN st THEN TRUE
     ELSE
       LET days == DaysBetween(t, st[digest_id].last_run)
       IN IF frequency = "daily" THEN days > 1
          ELSE IF frequency = "biweekly" THEN days > 3
          ELSE IF frequency = "weekly" THEN days > 7
          ELSE TRUE

should_run_digest(digest, st, t) ==
  LET digest_id == DigestId(digest)
      frequency == Get(digest, "frequency", "daily")
  IN IF digest_id \notin DOMAIN st THEN TRUE
     ELSE
       LET days == DaysBetween(t, st[digest_id].last_run)
       IN IF frequency = "daily" THEN days >= 1
          ELSE IF frequency = "biweekly" THEN days >= 3
          ELSE IF frequency = "weekly" THEN days >= 7
          ELSE TRUE

\* What the network can answer for one channel reference: the page of a
\* handle may fail to give the channel id, and the feed returns one of the
\* entry lists of the channel or the reading of it raises.
WebChoices(url) ==
  (IF url.kind = "channel" THEN {}
   ELSE {[page |-> "", entries |-> <<>>, error |-> FALSE]})
  \cup {[page |-> url.name, entries |-> f, error |-> FALSE] : f \in Feeds[url.name]}
  \cup {[page |-> url.name, entries |-> <<>>, error |-> TRUE]}

WebOf(channels) ==
  {w \in [DOMAIN channels -> UNION {WebChoices(channels[i]) : i \in DOMAIN channels}] :
     \A i \in DOMAIN channels : w[i] \in WebChoices(channels[i])}

\* Every way the outside world can behave during one run of digest.  What
\* the run never looks at is not varied: the Data API when nothing was
\* selected, the deliveries and the analysis when no video is left to send.
\* ais is the set of the ways the analysis calls can behave.
RunInputs(digest, st, subscribers, t, ais) ==
  LET digest_id == DigestId(digest)
      recipients == Recipients(digest, subscribers)
      seen_ids == Get(st, digest_id, NoEntry).seen_ids
      start_date == t - Lookback(Get(digest, "frequency", "daily"))
  IN UNION {
       LET all_videos == Gather(digest.channels, w, 1, start_date, seen_ids).all_videos
       IN UNION {
            LET details == get_video_details(all_videos, a)
                sends == \E i \in DOMAIN all_videos : KeepVideo(all_videos[i], details)
            IN UNION {
                 {[web |-> w, api_ok |-> a, sent |-> s, evict |-> e, ai |-> c] :
                    e \in (IF s = {} THEN {{}}
                           ELSE EvictChoices(Merge(seen_ids, all_videos))),
                    c \in (IF sends THEN ais ELSE {NoAi})}
                 : s \in IF sends THEN SUBSET (1..Len(recipients)) ELSE {{}}}
            : a \in IF all_videos = <<>> THEN {FALSE} ELSE BOOLEAN}
       : w \in WebOf(digest.channels)}

\* The history of the runs: last and ever after a run of digest_id, and the
\* digests whose run wrote its entry during this invocation.
Record(hist, digest_id, run, st) ==
  LET before == hist.last
      repeat ==
        IF /\ before.ran
           /\ before.digest_id = digest_id
           /\ before.end_date = run.end_date
           /\ before.web = run.web
        THEN [same |-> TRUE, success |-> before.success,
              cut |-> before.success /\ Excess(before.merged) > 0,
              all_videos |-> before.all_videos]
        ELSE NoRepeat
  IN [last |-> [run EXCEPT !.repeat = repeat],
      ever |-> [hist.ever EXCEPT ![digest_id] =
                  @ \cup (IF run.writes > 0 THEN st[digest_id].seen_ids.ids
                          ELSE {})],
      committed |-> IF run.writes > 0 THEN Append(hist.committed, digest_id)
                    ELSE hist.committed]

\* The for loop of main() from the i-th digest on, with the state dict st:
\* every way it can end.  arg is --digest, "" when not given; executed lists
\* the digests run_digest was called for.  The loop has no try: an exception
\* of run_digest ends it, and main with it.
RECURSIVE MainFrom(_, _, _, _, _, _, _)
MainFrom(i, cfg, arg, t, st, hist, executed) ==
  IF i > Len(cfg.digests)
  THEN {[state |-> st, hist |-> hist, executed |-> executed, aborted |-> FALSE]}
  ELSE
    LET digest == cfg.digests[i]
        digest_id == DigestId(digest)
        recipients == Recipients(digest, cfg.subscribers)
    IN IF arg # "" /\ arg # digest_id /\ arg # digest.name
       THEN MainFrom(i + 1, cfg, arg, t, st, hist, executed)
       ELSE IF recipients = <<>>
       THEN MainFrom(i + 1, cfg, arg, t, st, hist, executed)
       ELSE IF arg # "" \/ should_run_digest(digest, st, t)
       THEN UNION {
              LET r == run_digest(digest, st, cfg.subscribers, t, inp,
                                  hist.ever[digest_id])
                  h == Record(hist, digest_id, r.run, r.state)
                  e == Append(executed, digest_id)
              IN IF r.raised
                 THEN {[state |-> st, hist |-> h, executed |-> e,
                        aborted |-> TRUE]}
                 ELSE MainFrom(i + 1, cfg, arg, t, r.state, h, e)
              : inp \in RunInputs(digest, st, cfg.subscribers, t, cfg.ai)}
       ELSE MainFrom(i + 1, cfg, arg, t, st, hist, executed)

\* The digests that --digest names: those whose id or name it is.
Named(cfg, arg) ==
  {DigestId(cfg.digests[i]) : i \in {j \in DOMAIN cfg.digests :
     arg = DigestId(cfg.digests[j]) \/ arg = cfg.digests[j].name}}

\* The values of --digest: absent, or the id of a digest, or its name.
Selectors == {"", "d1", "Weekly", "Biweekly", "d3", "Silent", "d5", "Muted"}

Args(cfg) == {arg \in Selectors : arg = "" \/ Named(cfg, arg) # {}}

\* The state files the program can have left behind: none, or an entry per
\* digest whose last run was a whole interval ago or an hour less, with a
\* seen list holding only ids that are no longer in any feed.
EntryChoices(digest) ==
  LET back == Lookback(Get(digest, "frequency", "daily"))
  IN {[last_run |-> 0 - back, seen_ids |-> Seen({}, SeenCap - 2)],
      [last_run |-> 1 - back, seen_ids |-> Seen({}, 0)]}

StateChoices(cfg) ==
  {[k \in {} |-> NoEntry]} \cup
  {st \in [DigestIds(cfg) ->
             UNION {EntryChoices(cfg.digests[i]) : i \in DOMAIN cfg.digests}] :
     \A i \in DOMAIN cfg.digests :
       st[DigestId(cfg.digests[i])] \in EntryChoices(cfg.digests[i])}

\* The videos handed to the analysis and the renderer, with what the
\* analysis calls give.
Shelf(key, videos, replies) ==
  [ai |-> [key |-> key, themes_ok |-> key, replies |-> replies],
   videos |-> videos]

NoShelf == Shelf(FALSE, <<>>, <<>>)

\* No invocation yet.
NoCall ==
  [called |-> FALSE, forced |-> FALSE, named |-> {},
   loaded |-> [k \in {} |-> NoEntry],
   executed |-> <<>>, committed |-> <<>>,
   memory |-> [k \in {} |-> NoEntry],
   aborted |-> FALSE, saved |-> FALSE]

Init ==
  /\ config \in Configs
  /\ state \in StateChoices(config)
  /\ now = 0
  /\ last = NoRun
  /\ ever = [d \in DigestIds(config) |-> {}]
  /\ call = NoCall
  /\ shelf = NoShelf
  /\ html = NoPage

\* main(): load_config, load_state, the loop over the digests, save_state.
\* save_state is the last statement: an invocation that an exception ended
\* leaves state.json as load_state found it.  call.memory is the state dict
\* of the process when the loop ended, saved or not.
Main(arg) ==
  /\ config.digests # <<>>
  /\ \E res \in MainFrom(1, config, arg, now, state,
                         [last |-> last, ever |-> ever, committed |-> <<>>],
                         <<>>) :
       /\ state' = (IF res.aborted THEN state ELSE res.state)
       /\ last' = res.hist.last
       /\ ever' = (IF res.aborted THEN ever ELSE res.hist.ever)
       /\ call' = [called |-> TRUE, forced |-> arg # "",
                   named |-> Named(config, arg), loaded |-> state,
                   executed |-> res.executed,
                   committed |-> res.hist.committed, memory |-> res.state,
                   aborted |-> res.aborted,
                   saved |-> ~res.aborted]
  /\ UNCHANGED <<config, now, shelf, html>>

\* An hour passes between two invocations.
Tick ==
  /\ now < MaxNow
  /\ now' = now + 1
  /\ call' = NoCall
  /\ UNCHANGED <<config, state, last, ever, shelf, html>>

Next ==
  \/ \E arg \in Args(config) : Main(arg)
  \/ Tick

Spec == Init /\ [][Next]_vars

\* ------------------------------------------------- the renderer on its own
\* analyze_with_claude and format_email_html applied to lists of videos that
\* no configured feed is long enough to give.  A video of the shelf is named
\* by its position.
\* The videos a shelf is built from: views, likes and the reply of the
\* analysis call.
VideoKinds ==
  {[views |-> 0, likes |-> 3,
    reply |-> Json([guests |-> <<"g">>, topics |-> <<"t">>,
                    sentiment |-> "positive", category |-> "Tech",
                    summary |-> "s"])],
   [views |-> 10, likes |-> 1,
    reply |-> Json([guests |-> <<>>, topics |-> <<"t">>,
                    sentiment |-> "mixed", category |-> "News",
                    summary |-> "s"])],
   [views |-> 20, likes |-> 2, reply |-> Json([summary |-> "s"])],
   [views |-> 10, likes |-> 5, reply |-> CallFails]}

\* Ten videos of ten different rates, the best at position 10 - shift.
TenVideos(shift) ==
  [i \in 1..10 |-> [id |-> i, views |-> 100, likes |-> ((i + shift) % 10) + 1]]

\* The reply for the tenth video names a category and a sentiment that the
\* prompt does not offer.
TenReplies ==
  [i \in 1..10 |->
     IF i = 10 THEN Json([sentiment |-> "excited", category |-> "Gaming"])
     ELSE IF i % 3 = 0 THEN CallFails
     ELSE Json([category |-> IF i % 3 = 1 THEN "Tech" ELSE "News"])]

RenderInit ==
  /\ config = [digests |-> <<>>, subscribers |-> NoSubscribers, ai |-> {}]
  /\ state = [k \in {} |-> NoEntry]
  /\ now = 0
  /\ last = NoRun
  /\ ever = [d \in {} |-> {}]
  /\ call = NoCall
  /\ shelf \in {Shelf(key, <<>>, <<>>) : key \in BOOLEAN}
               \cup {Shelf(TRUE, TenVideos(shift), TenReplies) : shift \in 0..9}
  /\ html = NoPage

\* One more video on the shelf.
AddVideo(kind) ==
  /\ Len(shelf.videos) < MaxVideos
  /\ LET id == Len(shelf.videos) + 1
     IN shelf' = [shelf EXCEPT
                    !.videos = Append(@, [id |-> id, views |-> kind.views,
                                          likes |-> kind.likes]),
                    !.ai.replies = Append(@, kind.reply)]
  /\ html' = NoPage
  /\ UNCHANGED <<config, state, now, last, ever, call>>

\* analysis = analyze_with_claude(videos, name);
\* html = format_email_html(..., videos, analysis)
Format ==
  /\ shelf.videos # <<>>
  /\ html' = Rendering(shelf.videos, shelf.ai).html
  /\ UNCHANGED <<config, state, now, last, ever, call, shelf>>

RenderNext ==
  \/ \E kind \in VideoKinds : AddVideo(kind)
  \/ Format

RenderSpec == RenderInit /\ [][RenderNext]_vars

\* ==================================================================== claims
\* The entry of the digest of the last run, as the state file has it now.
LastEntry == Get(state, last.digest_id, NoEntry)

\* The ids the last run found in the seen list when it started.
SeenBefore == last.entry_before.seen_ids

\* The last run wrote the state entry of its digest.
Committed == last.ran /\ last.writes > 0

\* The union the last run committed had more than SeenCap ids.
WasCut ==
  Cardinality(SeenBefore.ids \cup Range(last.all_videos)) + SeenBefore.old > 500

\* The position of v in the sequence s, 0 when it is not there.
Pos(s, v) == IF v \in Range(s) THEN CHOOSE i \in DOMAIN s : s[i] = v ELSE 0

\* s1 lists its elements in the order s2 lists them.
SameOrder(s1, s2) ==
  \A i, j \in DOMAIN s1 : i < j => Pos(s2, s1[i]) < Pos(s2, s1[j])

\* C1: a video id that was ever committed to the seen_ids of a digest is not
\* selected by a later run of that digest, also after the list was cut at
\* the cap.
C1_NeverReselected ==
  last.ran => Range(last.all_videos) \cap last.ever_before = {}

\* C2: the state entry is written only when a delivery succeeded; when every
\* delivery fails the entry is what it was before the run, and a run repeated
\* at the same time on the same feeds selects the same videos again.
C2_FailedRunKeepsState ==
  /\ Committed => last.delivered # {}
  /\ (last.ran /\ last.delivered = {}) =>
       /\ (last.digest_id \in DOMAIN state) = last.had_entry
       /\ LastEntry = last.entry_before
  /\ (last.ran /\ last.repeat.same /\ ~last.repeat.success) =>
       last.all_videos = last.repeat.all_videos

C2_Witness ==
  /\ last.ran /\ last.reached_delivery
  /\ Len(last.attempts) = 3 /\ last.delivered = {}
  /\ last.had_entry /\ LastEntry = last.entry_before
  /\ last.repeat.same /\ ~last.repeat.success
  /\ last.all_videos # <<>>

\* C3: a run that reaches delivery with a non-empty recipient list returns
\* True exactly when some delivery succeeded, and then writes the state
\* entry once: not once per delivered recipient, and not at all otherwise.
C3_SuccessIffDelivered ==
  (last.ran /\ last.reached_delivery /\ last.attempts # <<>>) =>
    /\ last.success = (last.delivered # {})
    /\ last.writes = (IF last.delivered # {} THEN 1 ELSE 0)
    /\ last.success =>
         /\ last.digest_id \in DOMAIN state
         /\ state[last.digest_id].last_run = last.end_date

C3_Witness ==
  /\ last.ran /\ last.reached_delivery
  /\ Len(last.attempts) = 3 /\ Cardinality(last.delivered) = 1
  /\ last.success /\ last.writes = 1

\* C4 as claimed: a run repeated at once (same time, same feeds) selects
\* nothing, whatever the first run did.
C4_RepeatSelectsNothing ==
  (last.ran /\ last.repeat.same) => last.all_videos = <<>>

\* C4 as amended: when the first run committed its state and the commit was
\* not cut at the cap, the run repeated at once selects nothing.
C4_RepeatAfterCommitSelectsNothing ==
  (last.ran /\ last.repeat.same /\ last.repeat.success /\ ~last.repeat.cut) =>
    last.all_videos = <<>>

C4_Witness ==
  /\ last.ran /\ last.repeat.same /\ last.repeat.success /\ ~last.repeat.cut
  /\ last.repeat.all_videos # <<>>
  /\ last.fetched # <<>>
  /\ last.all_videos = <<>>

\* C5: after every commit the seen list holds at most 500 ids.
C5_SeenAtMostCap ==
  /\ Committed => Size(LastEntry.seen_ids) <= 500
  /\ \A d \in DOMAIN state : Size(state[d].seen_ids) <= 500

C5_Witness ==
  /\ Committed /\ WasCut
  /\ Size(LastEntry.seen_ids) = 500

\* C6: when the commit is cut at the cap, the 500 ids that remain are the
\* most recently added ones: the ids added by this run all stay, and no id
\* of the feeds is dropped while an older id is kept.
C6_OldestEvictedFirst ==
  (Committed /\ WasCut) =>
    /\ Size(LastEntry.seen_ids) = 500
    /\ Range(last.video_ids) \subseteq LastEntry.seen_ids.ids
    /\ LastEntry.seen_ids.old > 0 =>
         LastEntry.seen_ids.ids = SeenBefore.ids \cup Range(last.video_ids)

\* C7 as claimed: the commit sets last_run to the time of the run and
\* seen_ids to the old ids plus the ids of all the fetched items.
C7_SeenGetsAllFetched ==
  (Committed /\ Size(Seen(SeenBefore.ids \cup Range(last.fetched), SeenBefore.old)) <= 500) =>
    /\ LastEntry.last_run = last.end_date
    /\ LastEntry.seen_ids = Seen(SeenBefore.ids \cup Range(last.fetched), SeenBefore.old)

\* C7 as amended: the commit sets last_run to the time of the run and
\* seen_ids to the old ids plus the ids of the selected items (in the window
\* and unseen, Shorts included), cut down to 500 of them when there are more.
C7_SeenGetsSelected ==
  Committed =>
    LET union == Seen(SeenBefore.ids \cup Range(last.all_videos), SeenBefore.old)
    IN /\ LastEntry.last_run = last.end_date
       /\ LastEntry.seen_ids.ids \subseteq union.ids
       /\ LastEntry.seen_ids.old <= union.old
       /\ Size(LastEntry.seen_ids) = (IF Size(union) <= 500 THEN Size(union) ELSE 500)

C7_Witness ==
  /\ Committed /\ ~WasCut
  /\ Range(last.videos) # Range(last.all_videos)
  /\ Range(last.all_videos) # Range(last.fetched)
  /\ SeenBefore.old > 0
  /\ LastEntry.seen_ids.ids = SeenBefore.ids \cup Range(last.all_videos)

\* The configured frequency of the digest of the last run.
LastFrequency ==
  LET i == CHOOSE i \in DOMAIN config.digests :
             DigestId(config.digests[i]) = last.digest_id
  IN Get(config.digests[i], "frequency", "daily")

\* C8: the window starts 1 day (daily), 3 days (biweekly) or 7 days (weekly)
\* before the time of the run, whatever last_run is; an item published
\* before that start is not selected and an unseen item published at or
\* after it is.  For a daily digest, 25 hours old is out and 23 hours old in.
C8_WindowFromFrequency ==
  last.ran =>
    /\ LastFrequency = "daily" => last.start_date = last.end_date - 24
    /\ LastFrequency = "biweekly" => last.start_date = last.end_date - 72
    /\ LastFrequency = "weekly" => last.start_date = last.end_date - 168
    /\ \A v \in Range(last.fetched) :
         /\ Catalogue[v].published.hour < last.start_date =>
              v \notin Range(last.all_videos)
         /\ (Catalogue[v].published.hour >= last.start_date
             /\ v \notin SeenBefore.ids) => v \in Range(last.all_videos)
         /\ (LastFrequency = "daily"
             /\ Catalogue[v].published.hour = last.end_date - 25) =>
              v \notin Range(last.all_videos)
         /\ (LastFrequency = "daily" /\ v \notin SeenBefore.ids
             /\ Catalogue[v].published.hour = last.end_date - 23) =>
              v \in Range(last.all_videos)

C8_Witness ==
  /\ last.ran /\ LastFrequency = "daily" /\ last.had_entry
  /\ \E v \in Range(last.fetched) :
       /\ Catalogue[v].published.hour = last.end_date - 25
       /\ v \notin Range(last.all_videos)
  /\ \E v \in Range(last.fetched) :
       /\ Catalogue[v].published.hour = last.end_date - 23
       /\ v \in Range(last.all_videos)

\* C9: a fetched item is selected exactly when it was published in
\* [start_date, end_date) and its id is not in the seen list read at the
\* start of the run; the selected items keep the order of the feed.
C9_SelectedIffInWindowUnseen ==
  last.ran =>
    /\ \A v \in Range(last.fetched) :
         v \in Range(last.all_videos) <=>
           /\ Catalogue[v].published.hour >= last.start_date
           /\ Catalogue[v].published.hour < last.end_date
           /\ v \notin SeenBefore.ids
    /\ SameOrder(last.all_videos, last.fetched)

\* The total seconds a parsed duration token stands for.
TokenSeconds(duration_str) ==
  LET hms == _parse_duration(duration_str)
  IN hms[1] * 3600 + hms[2] * 60 + hms[3]

\* C10: an item enriched with a duration is classified short exactly when
\* the duration is below 60 seconds; after enrichment an item is dropped
\* exactly when it is classified short or its url has /shorts/.  59 seconds
\* is dropped, 60 seconds is kept.
C10_ShortsDropped ==
  last.ran =>
    /\ \A v \in last.detailed :
         Catalogue[v].has_duration =>
           ((v \in last.is_short) <=> TokenSeconds(Catalogue[v].duration) < 60)
    /\ last.is_short \subseteq last.detailed
    /\ \A v \in Range(last.all_videos) :
         /\ (v \notin Range(last.videos)) <=>
              (v \in last.is_short \/ "shorts" \in Range(Catalogue[v].url))
         /\ (v \in last.detailed /\ Catalogue[v].has_duration
             /\ TokenSeconds(Catalogue[v].duration) = 59) =>
              v \notin Range(last.videos)
         /\ (v \in last.detailed /\ Catalogue[v].has_duration
             /\ TokenSeconds(Catalogue[v].duration) = 60
             /\ "shorts" \notin Range(Catalogue[v].url)) =>
              v \in Range(last.videos)
    /\ SameOrder(last.videos, last.all_videos)

C10_Witness ==
  /\ last.ran
  /\ \E v \in last.detailed \cap Range(last.all_videos) :
       /\ TokenSeconds(Catalogue[v].duration) = 59
       /\ v \notin Range(last.videos)
  /\ \E v \in last.detailed \cap Range(last.videos) :
       TokenSeconds(Catalogue[v].duration) = 60
  /\ \E v \in Range(last.all_videos) \ Range(last.videos) :
       v \notin last.is_short /\ "shorts" \in Range(Catalogue[v].url)

\* A duration token the pattern PT[nH][nM][nS] reads in full.
WellFormed(duration_str) ==
  /\ duration_str.prefix = "PT"
  /\ duration_str.parts # <<>>
  /\ [i \in DOMAIN duration_str.parts |-> duration_str.parts[i].u] \in
       {<<"H">>, <<"M">>, <<"S">>, <<"H", "M">>, <<"H", "S">>, <<"M", "S">>,
        <<"H", "M", "S">>}

\* C11: an item enriched without a duration, or with a duration token that
\* does not parse as hours/minutes/seconds, is classified not short and is
\* kept by the Shorts filter unless its url has /shorts/.
C11_NoDurationIsNotShort ==
  last.ran =>
    \A v \in Range(last.all_videos) \cap last.detailed :
      (~Catalogue[v].has_duration \/ ~WellFormed(Catalogue[v].duration)) =>
        /\ v \notin last.is_short
        /\ "shorts" \notin Range(Catalogue[v].url) => v \in Range(last.videos)

\* C12: a run that selects nothing, or whose Shorts filter drops every
\* selected item, returns before the delivery: no recipient is attempted and
\* the state entry of the digest (last_run, seen_ids, or its absence) is what
\* it was before the run, so the next invocation finds the digest as due as
\* this one did.
C12_EmptyRunEndsEarly ==
  (last.ran /\ (last.all_videos = <<>> \/ last.videos = <<>>)) =>
    /\ ~last.reached_delivery
    /\ last.attempts = <<>> /\ last.delivered = {}
    /\ ~last.success /\ last.writes = 0
    /\ (last.digest_id \in DOMAIN state) = last.had_entry
    /\ LastEntry = last.entry_before

C12_Witness ==
  /\ last.ran /\ last.had_entry
  /\ last.all_videos # <<>> /\ last.videos = <<>>
  /\ ~last.reached_delivery /\ last.attempts = <<>>
  /\ LastEntry = last.entry_before

\* The digests of the configuration, by position, and what the last
\* invocation of main() found for them.
Digests == DOMAIN config.digests

IdAt(i) == DigestId(config.digests[i])

RecipientsAt(i) ==
  Get(config.subscribers, IdAt(i), Get(config.digests[i], "recipients", <<>>))

ExecutedAt(i) == IdAt(i) \in Range(call.executed)

\* The hours between last_run, as state.json had it, and the invocation.
ElapsedAt(i) == now - call.loaded[IdAt(i)].last_run

IntervalAt(i) ==
  LET frequency == Get(config.digests[i], "frequency", "daily")
  IN IF frequency = "daily" THEN 24
     ELSE IF frequency = "biweekly" THEN 72
     ELSE 168

DueAt(i) == IdAt(i) \notin DOMAIN call.loaded \/ ElapsedAt(i) >= IntervalAt(i)

\* The entry of the i-th digest in state.json is what the invocation loaded.
UntouchedAt(i) ==
  /\ (IdAt(i) \in DOMAIN state) = (IdAt(i) \in DOMAIN call.loaded)
  /\ Get(state, IdAt(i), NoEntry) = Get(call.loaded, IdAt(i), NoEntry)

\* The loop of the last invocation came to the i-th digest: it was not ended
\* by an exception, or it was ended at the i-th digest or a later one.
ReachedAt(i) ==
  ~call.aborted \/ \E j \in Digests : j >= i /\ ExecutedAt(j)

\* C13 as claimed: in every invocation a digest with recipients is executed
\* exactly when it has no last_run, or its interval has passed since
\* last_run, or --digest names it; a digest that is not executed is not
\* fetched, not delivered and its state entry stays.
C13_ExecutedIffDueOrForced ==
  call.called =>
    \A i \in Digests :
      RecipientsAt(i) # <<>> =>
        /\ ExecutedAt(i) <=> (DueAt(i) \/ IdAt(i) \in call.named)
        /\ ~ExecutedAt(i) => UntouchedAt(i)

\* C13 as amended: a digest with recipients that the loop comes to is
\* executed exactly when --digest is absent and the digest has no last_run
\* or its interval has passed, or --digest is given and names it; a digest
\* that is not executed keeps its state entry.
C13_ExecutedIffDueOrNamed ==
  call.called =>
    \A i \in Digests :
      /\ (RecipientsAt(i) # <<>> /\ ReachedAt(i)) =>
           (ExecutedAt(i) <=>
              (IF call.forced THEN IdAt(i) \in call.named ELSE DueAt(i)))
      /\ ~ExecutedAt(i) => UntouchedAt(i)

C13_Witness ==
  /\ call.called /\ ~call.forced /\ ~call.aborted
  /\ \E i \in Digests :
       /\ IdAt(i) \in DOMAIN call.loaded
       /\ ElapsedAt(i) = IntervalAt(i) /\ ExecutedAt(i)
  /\ \E i \in Digests :
       /\ RecipientsAt(i) # <<>> /\ IdAt(i) \in DOMAIN call.loaded
       /\ ElapsedAt(i) = IntervalAt(i) - 1 /\ ~ExecutedAt(i)

\* C14: when run_digest ends with an error for one digest, every other
\* digest of the invocation that is due (or named by --digest) is still
\* executed and save_state is reached, so that what earlier digests
\* committed is in state.json.
C14_ErrorLeavesOthersAndState ==
  (call.called /\ call.executed # <<>> /\ last.raised) =>
    /\ call.saved
    /\ \A i \in Digests :
         (RecipientsAt(i) # <<>>
          /\ (IF call.forced THEN IdAt(i) \in call.named ELSE DueAt(i))) =>
           ExecutedAt(i)

\* The recipients of the digest of the last run: the subscriber override
\* when there is one, else the configured list.
LastRecipients ==
  LET i == CHOOSE i \in Digests : IdAt(i) = last.digest_id
  IN RecipientsAt(i)

\* C15: a run that reaches the delivery calls send_email exactly once for
\* every recipient of the digest, in the order of the list, whether earlier
\* deliveries failed or not.
C15_EveryRecipientAttempted ==
  (last.ran /\ last.reached_delivery) => last.attempts = LastRecipients

C15_Witness ==
  /\ last.ran /\ last.reached_delivery
  /\ Len(LastRecipients) = 3
  /\ last.delivered = {3}
  /\ last.attempts = LastRecipients

\* html is the rendering of the shelf.
Rendered == html.themes # ""

\* The video at position i ranks before the one at position j: its rate is
\* higher, or the rates are equal and it comes first in the list.
RanksBefore(i, j) ==
  LET ri == Rate(shelf.videos[i])
      rj == Rate(shelf.videos[j])
  IN KeyLess(rj, ri) \/ (~KeyLess(ri, rj) /\ i < j)

\* F is the set of the first k videos of the list sorted by descending rate,
\* videos of equal rate in the order of the list.
IsTop(F, k) ==
  /\ F \subseteq DOMAIN shelf.videos
  /\ Cardinality(F) = k
  /\ \A i \in F : \A j \in DOMAIN shelf.videos \ F : RanksBefore(i, j)

DistinctRates ==
  \A i, j \in DOMAIN shelf.videos :
    i # j => (RanksBefore(i, j) /\ ~RanksBefore(j, i)) \/
             (RanksBefore(j, i) /\ ~RanksBefore(i, j))

\* C16 as claimed: of a non-empty list the standout videos are the first
\* ceil(count / 5), at least 1, of the list sorted by descending
\* likes / views (0 without views), equal rates in list order; of 10 videos
\* with different rates the 2 best.
C16_StandoutIsTopFifthRoundedUp ==
  Rendered =>
    LET n == Len(shelf.videos)
    IN /\ IsTop(html.must_watch_ids, IF (n + 4) \div 5 > 1 THEN (n + 4) \div 5 ELSE 1)
       /\ (n = 10 /\ DistinctRates) => Cardinality(html.must_watch_ids) = 2

\* C16 as amended: the standout videos are the first floor(count / 5), at
\* least 1, of that sorted list; of 10 videos with different rates the 2
\* best.
C16_StandoutIsTopFifthRoundedDown ==
  Rendered =>
    LET n == Len(shelf.videos)
    IN /\ IsTop(html.must_watch_ids, IF n \div 5 > 1 THEN n \div 5 ELSE 1)
       /\ (n = 10 /\ DistinctRates) => Cardinality(html.must_watch_ids) = 2

C16_Witness ==
  /\ Rendered /\ Len(shelf.videos) = 6
  /\ Cardinality(html.must_watch_ids) = 1
  /\ \E i \in html.must_watch_ids : \E j \in DOMAIN shelf.videos :
       /\ i < j /\ j \notin html.must_watch_ids
       /\ shelf.videos[i].views > 0 /\ shelf.videos[i].views # shelf.videos[j].views
       /\ shelf.videos[i].likes * shelf.videos[j].views
            = shelf.videos[j].likes * shelf.videos[i].views

\* The category the claim gives the video at position i of the shelf: the
\* one its analysis names, "Other" when there is no analysis (no API key, or
\* an answer that names none) or the analysis failed.
ClaimedCategory(i) ==
  LET r == shelf.ai.replies[i]
  IN IF ~shelf.ai.key \/ r.raised \/ ~r.has_json \/ ~r.valid THEN "Other"
     ELSE IF "category" \in DOMAIN r.value THEN r.value.category
     ELSE "Other"

\* The first position of the shelf with a video of category c.
FirstSeen(c) ==
  CHOOSE i \in DOMAIN shelf.videos :
    /\ ClaimedCategory(i) = c
    /\ \A j \in DOMAIN shelf.videos : ClaimedCategory(j) = c => i <= j

\* C17: the videos are grouped by the category of their analysis, "Other"
\* for a video without analysis or with a failed one; every video is in
\* exactly one group; the groups come in descending order of their size and
\* groups of equal size in the order in which their category first appears
\* in the list.
C17_GroupedByCategory ==
  Rendered =>
    LET groups == html.sorted_categories
        places(i) == {km \in (DOMAIN groups) \X (DOMAIN shelf.videos) :
                        /\ km[2] \in DOMAIN groups[km[1]].videos
                        /\ groups[km[1]].videos[km[2]] = i}
    IN /\ \A i \in DOMAIN shelf.videos :
            /\ Cardinality(places(i)) = 1
            /\ \A km \in places(i) : groups[km[1]].category = ClaimedCategory(i)
       /\ \A k \in DOMAIN groups :
            /\ groups[k].videos # <<>>
            /\ Range(groups[k].videos) \subseteq DOMAIN shelf.videos
       /\ \A k, l \in DOMAIN groups :
            k < l =>
              /\ groups[k].category # groups[l].category
              /\ Len(groups[k].videos) >= Len(groups[l].videos)
              /\ Len(groups[k].videos) = Len(groups[l].videos) =>
                   FirstSeen(groups[k].category) < FirstSeen(groups[l].category)

C17_Witness ==
  /\ Rendered
  /\ Len(html.sorted_categories) = 3
  /\ html.sorted_categories[1].category = "Other"
  /\ Len(html.sorted_categories[1].videos) = 2
  /\ Len(html.sorted_categories[2].videos) = 1
  /\ Len(html.sorted_categories[3].videos) = 1
  /\ FirstSeen("Other") > FirstSeen(html.sorted_categories[3].category)
  /\ \E i, j \in Range(html.sorted_categories[1].videos) :
       shelf.ai.replies[i].raised /\ shelf.ai.replies[j].valid

\* Every analysis call of the last run failed, or there was no API key.
AllCallsFail ==
  \/ ~last.ai.key
  \/ /\ ~last.ai.themes_ok
     /\ \A v \in Range(last.videos) :
          LET r == last.ai.replies[v]
          IN r.raised \/ ~r.has_json \/ ~r.valid

\* C18: a run whose analysis calls all fail, or that has no API key, goes
\* on: every video has the default analysis (sentiment "unknown", category
\* "Other", no guests, topics or summary), the themes are one of the two
\* fixed texts, the page is rendered with them, every recipient is
\* attempted and the state entry is written when a delivery succeeds.
C18_AnalysisFailureDegrades ==
  (last.ran /\ last.videos # <<>> /\ AllCallsFail) =>
    /\ ~last.raised /\ last.reached_delivery
    /\ last.analysis.themes \in
         {"AI analysis unavailable (no API key)", "Theme analysis unavailable"}
    /\ last.html.themes = last.analysis.themes
    /\ \A v \in Range(last.videos) :
         /\ last.ai.key =>
              LET a == last.analysis.video_analyses[v]
              IN /\ DOMAIN a = {"guests", "topics", "sentiment", "category", "summary"}
                 /\ a.guests = <<>> /\ a.topics = <<>> /\ a.summary = ""
                 /\ a.sentiment = "unknown" /\ a.category = "Other"
         /\ last.html.cards[v].sentiment = "unknown"
         /\ last.html.cards[v].guests = <<>>
         /\ last.html.cards[v].summary = ""
    /\ last.html.sorted_categories =
         <<[category |-> "Other", videos |-> last.videos]>>
    /\ last.attempts = LastRecipients
    /\ last.writes = (IF last.delivered # {} THEN 1 ELSE 0)
    /\ last.delivered # {} =>
         /\ last.success
         /\ last.digest_id \in DOMAIN state
         /\ state[last.digest_id].last_run = last.end_date

C18_Witness ==
  /\ last.ran /\ last.reached_delivery
  /\ last.ai.key /\ AllCallsFail
  /\ Len(last.videos) = 2
  /\ Len(last.attempts) = 2 /\ last.delivered = {2}
  /\ last.writes = 1
  /\ state[last.digest_id].last_run = last.end_date

\* C19: a digest without recipients (the list of DIGEST_SUBSCRIBERS taken
\* before the one of config.json) or without channels is passed over also
\* when --digest names it: no delivery is attempted for it and its state
\* entry stays.
C19_NoRecipientsOrChannelsSkipped ==
  call.called =>
    \A i \in Digests :
      /\ RecipientsAt(i) = <<>> => (~ExecutedAt(i) /\ UntouchedAt(i))
      /\ config.digests[i].channels = <<>> =>
           /\ UntouchedAt(i)
           /\ (ExecutedAt(i) /\ last.digest_id = IdAt(i)) =>
                (~last.reached_delivery /\ last.attempts = <<>>)

C19_Witness ==
  /\ call.called /\ call.forced
  /\ \E i \in Digests :
       /\ IdAt(i) \in call.named
       /\ RecipientsAt(i) = <<>>
       /\ Get(config.digests[i], "recipients", <<>>) # <<>>
       /\ IdAt(i) \in DOMAIN call.loaded
       /\ now - call.loaded[IdAt(i)].last_run >= 24
       /\ ~ExecutedAt(i) /\ UntouchedAt(i)

\* The channels of the digest of the last run.
LastChannels ==
  LET i == CHOOSE i \in Digests : IdAt(i) = last.digest_id
  IN config.digests[i].channels

\* The i-th channel reference of the last run gave a channel id.
ResolvedAt(i) == LastChannels[i].kind = "channel" \/ last.web[i].page # ""

\* C20: a channel reference that does not resolve is passed over and the
\* run goes on: the feed of every other channel is fetched, its unseen
\* entries of the window are selected and, when the Shorts filter keeps
\* them, they are on the page sent to every recipient.
C20_UnresolvedChannelSkipped ==
  (last.ran /\ ~last.raised) =>
    \A i \in DOMAIN LastChannels :
      ResolvedAt(i) =>
        \A v \in Range(last.web[i].entries) :
          /\ v \in Range(last.fetched)
          /\ (Catalogue[v].published.hour >= last.start_date
              /\ v \notin SeenBefore.ids) =>
               /\ v \in Range(last.all_videos)
               /\ (v \notin last.is_short
                   /\ "shorts" \notin Range(Catalogue[v].url)) =>
                    /\ v \in Range(last.videos)
                    /\ last.reached_delivery
                    /\ v \in DOMAIN last.html.cards
                    /\ last.attempts = LastRecipients

C20_Witness ==
  /\ last.ran /\ ~last.raised
  /\ Len(LastChannels) = 2
  /\ ~ResolvedAt(1) /\ ResolvedAt(2)
  /\ last.fetched = last.web[2].entries
  /\ last.videos # <<>> /\ last.videos = last.fetched
  /\ last.reached_delivery /\ last.delivered # {}

\* The digest ids of the configuration are pairwise distinct.
DistinctIds ==
  \A i, j \in Digests : IdAt(i) = IdAt(j) => i = j

CommittedAt(i) == IdAt(i) \in Range(call.committed)

\* The entry of the i-th digest in the state dict at the end of the loop is
\* what the invocation loaded.
KeptAt(i) ==
  /\ (IdAt(i) \in DOMAIN call.memory) = (IdAt(i) \in DOMAIN call.loaded)
  /\ Get(call.memory, IdAt(i), NoEntry) = Get(call.loaded, IdAt(i), NoEntry)

\* C21: with distinct digest ids, a run of a digest changes at most the state
\* entry under its own id.  At the end of the loop of an invocation the
\* state dict has the keys it was loaded with and those of the digests that
\* committed; the entry of a digest that did not commit (not run, run
\* without anything to send, without a delivery, or ended by an error) is the
\* loaded one, whatever the other digests did; and the entry of every digest
\* that committed carries the last_run of its own commit, also when another
\* digest committed after it.
C21_RunWritesOwnEntryOnly ==
  (call.called /\ DistinctIds) =>
    /\ DOMAIN call.memory =
         DOMAIN call.loaded \cup {IdAt(i) : i \in {j \in Digests : CommittedAt(j)}}
    /\ \A i \in Digests :
         /\ ~CommittedAt(i) => KeptAt(i)
         /\ CommittedAt(i) =>
              /\ ExecutedAt(i)
              /\ call.memory[IdAt(i)].last_run = now
              /\ IdAt(i) = last.digest_id =>
                   call.memory[IdAt(i)].seen_ids.ids \subseteq last.merged.ids
    /\ call.saved => state = call.memory

\* Two digests commit in one invocation that reaches save_state, the first
\* of them over an entry that was loaded with an earlier last_run.
C21_Witness ==
  /\ call.called /\ call.saved /\ DistinctIds
  /\ Len(call.committed) = 2
  /\ call.committed[1] # call.committed[2]
  /\ call.committed[1] \in DOMAIN call.loaded
  /\ call.loaded[call.committed[1]].last_run # now
  /\ call.committed[2] = last.digest_id /\ last.writes > 0

\* The frequency of the i-th digest is one that should_run_digest knows.
RecognisedAt(i) ==
  Get(config.digests[i], "frequency", "daily") \in {"daily", "biweekly", "weekly"}

\* The times at which the i-th digest is known to have committed: the hour
\* of the last invocation when that one was not forced and the digest
\* committed in it, and the time of the most recent run of all when that run
\* was of this digest and committed.
CommitTimesAt(i) ==
  (IF call.called /\ ~call.forced /\ CommittedAt(i) THEN {now} ELSE {})
  \cup (IF last.writes > 0 /\ last.digest_id = IdAt(i) THEN {last.end_date}
        ELSE {})

\* C22: without --digest and with a recognised frequency, a digest that
\* committed at time t is not executed by any invocation before t plus the
\* interval of its frequency, so two successive commits of a digest, and two
\* emails to a recipient, are at least an interval apart.  Stated on the
\* step of an invocation: no digest it executes has a commit less than an
\* interval back.
C22_CommitsAnIntervalApart ==
  [][(call'.called /\ ~call'.forced) =>
       \A i \in Digests :
         (RecognisedAt(i) /\ IdAt(i) \in Range(call'.executed)) =>
           \A t \in CommitTimesAt(i) : now' >= t + IntervalAt(i)]_vars

\* The categories the prompt offers and the renderer has an icon for, and
\* the sentiments the prompt offers together with the default.
Categories ==
  {"Politics", "Tech", "Business", "Entertainment", "Science", "Sports",
   "Culture", "News", "Education", "Other"}

Sentiments == {"positive", "negative", "mixed", "unknown"}

\* C23: whatever the analysis calls answer, every section of a rendered page
\* is headed by one of the ten categories and every card reads a sentiment
\* that is positive, negative, mixed or unknown: an answer naming another
\* value is rendered as the default.
C23_CategoryAndSentimentClosed ==
  Rendered =>
    /\ \A i \in DOMAIN html.sorted_categories :
         html.sorted_categories[i].category \in Categories
    /\ \A id \in DOMAIN html.cards : html.cards[id].sentiment \in Sentiments
====
